---- MODULE Spec2Model ----
(***************************************************************************)
(* Accessibility scanner backend: the submission gateway (apps/api), the   *)
(* BullMQ queue 'scan-jobs', the scan worker (apps/worker) and the         *)
(* scan_results table.                                                     *)
(*                                                                         *)
(* Optional values (undefined / null / SQL NULL) are written Absent, a     *)
(* present value x is written Some(x).  Strings are sequences of tokens so *)
(* that concatenation is \o and the empty string is <<>>.                  *)
(***************************************************************************)
EXTENDS Integers, Sequences, FiniteSets, TLC

\* ------------------------------------------------------------------ bounds
\* Number of job ids the model lets POST /api/scan-website mint.
MaxJobs == 3

\* Longest violation list the audit engine is made to return where the score
\* is checked.
MaxViolations == 2

\* Number of termination signals the model sends the worker process.
MaxSignals == 2

\* The retention count the properties hold the broker to, scaled down from
\* the counts of thousands a deployment would configure.
MaxRetained == 2

\* Pool size N of the worker ("concurrency" option of the Worker).  The
\* worker configures 5; the model checks the gate for this smaller N.
Concurrency == 2

\* --------------------------------------------------------- program constants
\* defaultJobOptions.attempts of scanQueue.
Attempts == 3

\* maxStalledCount of the Worker: the option is not set, so the broker's
\* default applies: a job is recovered from a stall once.
maxStalledCount == 1

VARIABLES
    minted,     \* number of calls of uuidv4() so far
    jobs,       \* the broker's jobs of queue 'scan-jobs': job id -> job
    wait,       \* the broker's wait list (FIFO), a sequence of job ids
    execs,      \* executions of processScanJob in flight in the worker
    rows,       \* table scan_results, in insertion order
    audited,    \* history: ids of the jobs for which some execution finished the audit
    pending,    \* the POST /api/scan-website request waiting at "await scanQueue.add"
    http,       \* the last response the API sent
    adds,       \* history: number of calls of scanQueue.add
    wk,         \* the worker process: readiness, health file, shutdown
    api         \* the API process: health file, shutdown

vars == <<minted, jobs, wait, execs, rows, audited, pending, http, adds, wk, api>>

\* ------------------------------------------------------------ optional values
Absent == <<>>

Some(x) == <<x>>

IsPresent(o) == Len(o) > 0

Get(o) == o[1]

\* ------------------------------------------------------------------- strings
EmptyString == <<>>

Str(token) == <<token>>

\* A blank.
Space == " "

\* String.prototype.startsWith for a prefix that is one token.
StartsWith(s, prefix) == Len(s) > 0 /\ s[1] = prefix

RECURSIVE TrimStart(_)
TrimStart(s) ==
    IF Len(s) > 0 /\ Head(s) = Space THEN TrimStart(Tail(s)) ELSE s

RECURSIVE TrimEnd(_)
TrimEnd(s) ==
    IF Len(s) > 0 /\ s[Len(s)] = Space THEN TrimEnd(SubSeq(s, 1, Len(s) - 1)) ELSE s

\* String.prototype.trim
Trim(s) == TrimEnd(TrimStart(s))

\* ------------------------------------------------------------- JSON values
\* The url member of a request body: a string, a number, or no member.
JsString(text) == [type |-> "string", text |-> text]

JsNumber == [type |-> "number", text |-> EmptyString]

JsUndefined == [type |-> "undefined", text |-> EmptyString]

\* ---------------------------------------------------------------- the gateway
\* The scheme prefixes of the URLs of the model.
HttpsPrefix == "https://"

HttpPrefix == "http://"

FtpPrefix == "ftp://"

SchemePrefixes == {HttpsPrefix, HttpPrefix, FtpPrefix}

\* The text that may stand in the host of a URL: a host name, or a scheme
\* prefix ("https://https://x" has the host "https", an empty port and the
\* path "//x").  A blank in the host is refused.
HostTokens == {"example.com"} \cup SchemePrefixes

\* The last position of the authority of t, which starts at position 2: it
\* ends with the first token that brings a slash.
AuthorityEnd(t) ==
    IF \E i \in 2..Len(t) : t[i] \in SchemePrefixes
    THEN CHOOSE i \in 2..Len(t) :
             /\ t[i] \in SchemePrefixes
             /\ \A k \in 2..(i - 1) : t[k] \notin SchemePrefixes
    ELSE Len(t)

\* z.string().url(): new URL(s) does not throw.  The parser drops the blanks
\* around s, wants a scheme and, after it, a host without a blank.
IsUrl(s) ==
    LET t == Trim(s)
    IN  /\ Len(t) >= 2
        /\ t[1] \in SchemePrefixes
        /\ \A i \in 2..AuthorityEnd(t) : t[i] \in HostTokens

\* A preprocess step that prepends https:// to every non-blank string.
PreprocessAlways(val) ==
    IF val.type = "string" /\ Trim(val.text) # EmptyString
    THEN JsString(<<HttpsPrefix>> \o Trim(val.text))
    ELSE val

\* The preprocess step of scanWebsiteSchema: a string that is not blank and
\* starts with neither http:// nor https:// is trimmed and gets https://
\* prepended; every other value is passed on as it is.
Preprocess(val) ==
    IF /\ val.type = "string"
       /\ Trim(val.text) # EmptyString
       /\ ~StartsWith(val.text, HttpPrefix)
       /\ ~StartsWith(val.text, HttpsPrefix)
    THEN JsString(<<HttpsPrefix>> \o Trim(val.text))
    ELSE val

\* scanWebsiteSchema.safeParse(req.body)
scanWebsiteSchema(body) ==
    LET val == Preprocess(body.url)
    IN  [success |-> val.type = "string" /\ IsUrl(val.text),
         data |-> [url |-> val.text]]

\* A handler that does not look at the result of the validation.
ValidationFailedIgnored(validationResult) == FALSE

\* if (!validationResult.success)
ValidationFailed(validationResult) == ~validationResult.success

\* A generator that returns at its second call the id of its first call.
uuidv4Repeating == IF minted = 0 THEN 1 ELSE minted

\* uuidv4(): an id no earlier call returned.
uuidv4 == minted + 1

\* Job data whose originalJobId is the id minted before this one.
JobDataWithStaleId(url, jobId) == [submittedUrl |-> url, originalJobId |-> jobId - 1]

\* The data of the job POST /api/scan-website adds:
\* { submittedUrl: url, originalJobId: jobId }
JobData(url, jobId) == [submittedUrl |-> url, originalJobId |-> jobId]

\* scanQueue.add('scan-url', data, {jobId}): the job as the broker stores it.
NewJob(jobId, data) ==
    [id |-> jobId, data |-> data, state |-> "waiting", attemptsMade |-> 0,
     lock |-> 0, stalledCounter |-> 0,
     returnvalue |-> Absent, failedReason |-> Absent]

\* A response of the API: the route and the request it answers, the status
\* and the body sent.
Response(route, req, status, body) ==
    [route |-> route, req |-> req, status |-> status, body |-> body]

\* ---------------------------------------------------------- the API process
\* The API process once its server listens: the callback of app.listen has
\* written the file /tmp/healthy, no signal was received.
\*   calls          the invocations of shutdown(signal, value), each with its
\*                  value, the await it is at: "queue" (scanQueue.close()),
\*                  "pool" (pool.end()), "server" (the callback of server.close),
\*                  and whether its pool.end() was a second call (again)
\*   queueClosed    scanQueue.close() was called
\*   poolEnding     pool.end() was called
\*   serverClosing  server.close() was called: no new connection is accepted
\*   released       history: what shutdown() released, in order
\*   exit           the exit status, once process.exit was called
NewApiProcess ==
    [healthy |-> TRUE, queueClosed |-> FALSE, poolEnding |-> FALSE,
     serverClosing |-> FALSE, calls |-> <<>>, released |-> <<>>, exit |-> Absent]

\* The server takes new requests.
ApiAccepting == ~IsPresent(api.exit) /\ ~api.serverClosing

\* The signals shutdown is registered for, with their values.
signals == [SIGINT |-> 2, SIGTERM |-> 15]

\* The status of GET /healthz: 200 when the file /tmp/healthy was written,
\* 500 from the catch block when writing it threw.  Neither the broker nor
\* the store is asked.
HealthzStatus(fileOk, brokerUp, storeUp) == IF fileOk THEN 200 ELSE 500

\* GET /healthz.  The request record keeps, for the properties, whether the
\* broker and the store were reachable when the probe was answered.
Healthz(fileOk, brokerUp, storeUp) ==
    LET status == HealthzStatus(fileOk, brokerUp, storeUp)
    IN  /\ ApiAccepting
        /\ http' = Some(Response("healthz", [broker |-> brokerUp, store |-> storeUp],
                                 status,
                                 IF status = 200
                                 THEN [status |-> "healthy"]
                                 ELSE [status |-> "unhealthy",
                                       message |-> "Failed to write health signal"]))
        /\ api' = [api EXCEPT !.healthy = IF fileOk THEN TRUE ELSE @]
        /\ UNCHANGED <<minted, jobs, wait, execs, rows, audited, pending, adds, wk>>

\* SIGINT or SIGTERM: shutdown(signal, value) runs up to
\* "await scanQueue.close()".
ApiSignal(signal) ==
    /\ ~IsPresent(api.exit)
    /\ Len(api.calls) < MaxSignals
    /\ api' = [api EXCEPT !.calls = Append(@, [at |-> "queue", value |-> signals[signal],
                                               again |-> FALSE]),
                          !.queueClosed = TRUE]
    /\ UNCHANGED <<minted, jobs, wait, execs, rows, audited, pending, http, adds, wk>>

\* The invocation of shutdown that resumes first at this await: the oldest.
ApiResumes(i, at) ==
    /\ ~IsPresent(api.exit)
    /\ i \in DOMAIN api.calls
    /\ api.calls[i].at = at
    /\ \A k \in 1..(i - 1) : api.calls[k].at # at

Released(list, name, done) ==
    IF done /\ \A k \in 1..Len(list) : list[k] # name THEN Append(list, name) ELSE list

\* shutdown after "await scanQueue.close()" (a rejection is caught and
\* logged): pool.end() is called.
ApiShutdownEndPool(i, r) ==
    /\ ApiResumes(i, "queue")
    /\ api' = [api EXCEPT !.calls[i].at = "pool",
                          !.calls[i].again = api.poolEnding,
                          !.released = Released(@, "queue", ~r.threw),
                          !.poolEnding = TRUE]
    /\ UNCHANGED <<minted, jobs, wait, execs, rows, audited, pending, http, adds, wk>>

\* shutdown after "await pool.end()" (a rejection, which a second call of
\* end() always gets, is caught and logged): server.close(callback) is
\* called.
ApiShutdownCloseServer(i, r) ==
    /\ ApiResumes(i, "pool")
    /\ api' = [api EXCEPT !.calls[i].at = "server",
                          !.released = Released(@, "pool", ~r.threw /\ ~api.calls[i].again),
                          !.serverClosing = TRUE]
    /\ UNCHANGED <<minted, jobs, wait, execs, rows, audited, pending, http, adds, wk>>

\* The callback of server.close: the server has closed, the health file is
\* removed if it is there (a failure is logged) and the process exits with
\* 128 + value.
ApiServerClosed(i, unlinkOk) ==
    /\ ApiResumes(i, "server")
    /\ api' = [api EXCEPT !.calls[i].at = "done",
                          !.released = Released(@, "server", TRUE),
                          !.healthy = IF unlinkOk THEN FALSE ELSE @,
                          !.exit = Some(128 + api.calls[i].value)]
    /\ UNCHANGED <<minted, jobs, wait, execs, rows, audited, pending, http, adds, wk>>

\* POST /api/scan-website up to "await scanQueue.add(...)": a body that fails
\* the validation is answered 400; otherwise an id is minted and the job is
\* added, which the broker does (brokerUp) or fails to do; the broker does
\* not add a job under an id it already holds.  The model follows one such
\* request at a time.
ScanWebsite(body, brokerUp) ==
    LET validationResult == scanWebsiteSchema(body)
        url == validationResult.data.url
        jobId == uuidv4
    IN  /\ ApiAccepting
        /\ ~IsPresent(pending)
        /\ minted < MaxJobs
        /\ IF ValidationFailed(validationResult)
           THEN /\ http' = Some(Response("scan-website", body, 400,
                                         [message |-> "Invalid request body"]))
                /\ UNCHANGED <<minted, jobs, wait, pending, adds>>
           ELSE /\ minted' = minted + 1
                /\ adds' = adds + 1
                /\ pending' = Some([req |-> body, jobId |-> jobId, url |-> url,
                                    added |-> brokerUp])
                /\ IF brokerUp /\ jobId \notin DOMAIN jobs
                   THEN /\ jobs' = jobs @@ (jobId :> NewJob(jobId,
                                  JobData(url, jobId)))
                        /\ wait' = Append(wait, jobId)
                   ELSE UNCHANGED <<jobs, wait>>
                /\ UNCHANGED http
        /\ UNCHANGED <<execs, rows, audited, wk, api>>

\* A handler that sends 202 whatever became of the add.
ScanWebsiteResponseAlwaysAccepted(p) ==
    Response("scan-website", p.req, 202, [jobId |-> p.jobId, submittedUrl |-> p.url])

\* The response sent after "await scanQueue.add(...)": 202 with the job id
\* and the validated url, or 500 from the catch block.
ScanWebsiteResponse(p) ==
    IF p.added
    THEN Response("scan-website", p.req, 202,
                  [jobId |-> p.jobId, submittedUrl |-> p.url])
    ELSE Response("scan-website", p.req, 500,
                  [message |-> "Failed to enqueue scan request. Please try again later."])

\* A handler that waits for the job to finish before it answers.
AwaitedUntilFinished(p) ==
    p.added => jobs[p.jobId].state \in {"completed", "failed"}

\* What the handler awaits before it answers: the promise of scanQueue.add,
\* which has settled once the broker stored the job or the add failed.
Awaited(p) == p.added \in BOOLEAN

\* POST /api/scan-website after "await scanQueue.add(...)"
ScanWebsiteRespond ==
    /\ IsPresent(pending)
    /\ Awaited(Get(pending))
    /\ http' = Some(ScanWebsiteResponse(Get(pending)))
    /\ pending' = Absent
    /\ UNCHANGED <<minted, jobs, wait, execs, rows, audited, adds, wk, api>>

\* ------------------------------------------------------------------ the store
\* A table without the unique constraint on job_id.
JobIdNotConstrained(table, jobId) == TRUE

\* The unique constraint on scan_results.job_id: no row holds this job id yet.
JobIdUnique(table, jobId) ==
    \A i \in 1..Len(table) : table[i].job_id # jobId

\* JSON.stringify of a violation list (the text bound to the jsonb column).
JSONStringify(list) == [json |-> list]

\* x || null for an optional string: an absent or empty string becomes NULL.
OrNull(o) == IF IsPresent(o) /\ Get(o) # EmptyString THEN o ELSE Absent

\* processingError?.message
ErrorMessage(processingError) ==
    IF IsPresent(processingError) THEN Some(Get(processingError).message) ELSE Absent

\* The values array with the test of scanSucceeded for violations inverted.
InsertValuesInverted(job, scanResult) ==
    [job_id          |-> job.id,
     original_job_id |-> job.data.originalJobId,
     submitted_url   |-> job.data.submittedUrl,
     actual_url      |-> scanResult.actualUrl,
     page_title      |-> scanResult.pageTitle,
     scan_success    |-> scanResult.scanSucceeded,
     violations      |-> IF ~scanResult.scanSucceeded
                         THEN Some(JSONStringify(<<>>))
                         ELSE Absent,
     error_message   |-> IF scanResult.scanSucceeded
                         THEN Absent
                         ELSE ErrorMessage(scanResult.processingError),
     page_screenshot |-> OrNull(scanResult.screenshot)]

\* The values array of saveScanResultToDb, as the row the INSERT writes.
InsertValues(job, scanResult) ==
    [job_id          |-> job.id,
     original_job_id |-> job.data.originalJobId,
     submitted_url   |-> job.data.submittedUrl,
     actual_url      |-> scanResult.actualUrl,
     page_title      |-> scanResult.pageTitle,
     scan_success    |-> scanResult.scanSucceeded,
     violations      |-> IF scanResult.scanSucceeded
                         THEN Some(JSONStringify(Get(scanResult.axeResults).violations))
                         ELSE Absent,
     error_message   |-> IF scanResult.scanSucceeded
                         THEN Absent
                         ELSE ErrorMessage(scanResult.processingError),
     page_screenshot |-> OrNull(scanResult.screenshot)]

\* pool.query(insertQuery, values): the error it throws, if any.  The store is
\* unreachable (storeUp = FALSE) or the row breaks the unique constraint.
QueryError(table, values, storeUp) ==
    IF ~storeUp THEN Some(Str("connection terminated"))
    ELSE IF ~JobIdUnique(table, values.job_id) THEN Some(Str("duplicate key value"))
    ELSE Absent

\* An INSERT ... ON CONFLICT (job_id) DO UPDATE: the row of the job id is
\* overwritten.
Upserted(table, values, err) ==
    IF ~IsPresent(err) THEN Append(table, values)
    ELSE IF err = Some(Str("duplicate key value"))
    THEN [i \in 1..Len(table) |->
             IF table[i].job_id = values.job_id THEN values ELSE table[i]]
    ELSE table

\* A DELETE of the job id's row followed by the INSERT: the last writer's
\* row replaces the first writer's.
InsertedLastWriterWins(table, values, err) ==
    IF err = Some(Str("duplicate key value"))
    THEN Append(SelectSeq(table, LAMBDA row : row.job_id # values.job_id), values)
    ELSE IF ~IsPresent(err) THEN Append(table, values)
    ELSE table

\* The table after the INSERT statement: the row is appended unless the
\* query threw err.
Inserted(table, values, err) ==
    IF ~IsPresent(err) THEN Append(table, values) ELSE table

\* The catch block of saveScanResultToDb: dbErrorMessage.
DbErrorMessage(err) == Str("Failed to save scan result to database: ") \o err

\* ----------------------------------------------------------------- the worker
\* The state of one call of processScanJob(job) when the worker starts it.
NewExec(job) ==
    [job |-> job.id, lock |-> job.lock, pc |-> "launch",
     browser |-> "none",
     actualUrl |-> Absent, pageTitle |-> Absent, scanSucceeded |-> FALSE,
     axeResults |-> Absent, processingError |-> Absent, screenshot |-> Absent,
     failedAt |-> "none",
     dbSaveSuccess |-> FALSE, dbErrorMessage |-> Absent,
     returned |-> Absent, thrown |-> Absent]

\* The outcome of an awaited call: it resolves, or rejects with an error.
Resolved == [threw |-> FALSE, message |-> EmptyString]

RejectedWith(message) == [threw |-> TRUE, message |-> message]

\* A call served by the library itself (launch, newPage, goto, title,
\* screenshot, close, readFile) rejects with a library error, whose message
\* is not empty.
NodeOutcomes == {Resolved, RejectedWith(Str("error"))}

\* page.evaluate rejects with what the code running in the scanned page
\* threw: new Error() or a thrown '' gives an empty message (a value that is
\* not an Error is wrapped by new Error(String(e))).
PageOutcomes == NodeOutcomes \cup {RejectedWith(EmptyString)}

\* A catch block with no finally block after it: the browser is not closed.
CaughtWithoutFinally(e, step, r) ==
    [e EXCEPT !.processingError = Some([message |-> r.message]),
              !.failedAt = step,
              !.pc = "save"]

\* A catch block that throws the error again once the browser is dealt with.
CaughtAndRethrown(e, step, r) ==
    [e EXCEPT !.processingError = Some([message |-> r.message]),
              !.failedAt = step,
              !.thrown = Some(r.message),
              !.pc = IF e.browser = "open" THEN "close" ELSE "report"]

\* A catch block that keeps the error and lets the pipeline go on with the
\* call that failed.
CaughtAndResumed(e, step, r) ==
    [e EXCEPT !.processingError = Some([message |-> r.message]),
              !.failedAt = step]

\* The catch block and the test of the finally block of processScanJob: the
\* error is kept, and the browser, if one was launched, is closed next.
Caught(e, step, r) ==
    [e EXCEPT !.processingError = Some([message |-> r.message]),
              !.failedAt = step,
              !.pc = IF e.browser = "open" THEN "close" ELSE "save"]

\* A screenshot error that reaches the outer catch block.
ScreenshotFailedAborts(e, r) == Caught(e, "screenshot", r)

\* The catch block around page.screenshot: the error is logged and dropped.
ScreenshotFailed(e, r) == [e EXCEPT !.pc = "axe"]

\* Lines 212-240 of processScanJob: the value returned to the broker.
ReturnValue(job, e, dbSaveSuccess, dbErrorMessage) ==
    LET overallJobSuccess == e.scanSucceeded /\ dbSaveSuccess
        msg0 == IF IsPresent(e.processingError)
                THEN Get(e.processingError).message ELSE EmptyString
        msg1 == IF IsPresent(dbErrorMessage)
                THEN (IF msg0 # EmptyString THEN msg0 \o Str("; ") ELSE msg0)
                     \o Get(dbErrorMessage)
                ELSE msg0
        finalErrorMessage ==
            IF msg1 = EmptyString THEN Str("Unknown processing or DB error") ELSE msg1
    IN  IF overallJobSuccess
        THEN [success |-> TRUE, jobId |-> job.id,
              violations |-> Some(Get(e.axeResults).violations),
              errorMessage |-> Absent]
        ELSE [success |-> FALSE, jobId |-> job.id,
              violations |-> Absent,
              errorMessage |-> Some(finalErrorMessage)]

\* ------------------------------------------------------- the worker process
\* A module that wrote the health file while it was loaded.
NewWorkerProcessWithFile ==
    [ready |-> FALSE, healthy |-> TRUE, closing |-> FALSE, ending |-> FALSE,
     calls |-> <<>>, released |-> <<>>, unlinkFailed |-> FALSE, exit |-> "none",
     inFlightAtClose |-> {}]

\* The worker process once its module is loaded: the Worker is constructed,
\* no 'ready' event yet, no file /tmp/healthy_worker, no signal received.
\*   calls     the invocations of shutdown(), each at "close" (awaiting
\*             worker.close()), "end" (awaiting pool.end()), "done" or "rejected"
\*   closing   worker.close() was called
\*   ending    pool.end() was called
\*   released  history: what shutdown() released, in order
\*   inFlightAtClose  history: the jobs in flight when close() was first called
\*   exit      "none" while the process runs, "exit0" after process.exit(0),
\*             "crashed" after an unhandled promise rejection ended it
NewWorkerProcess ==
    [ready |-> FALSE, healthy |-> FALSE, closing |-> FALSE, ending |-> FALSE,
     calls |-> <<>>, released |-> <<>>, unlinkFailed |-> FALSE, exit |-> "none",
     inFlightAtClose |-> {}]

Running == wk.exit = "none"

\* A 'failed' handler that ends the process.
OnFailedExits(w) == [w EXCEPT !.exit = "crashed"]

\* worker.on('failed', ...): the failure is logged.
OnFailed(w) == w

\* worker.on('completed', ...): the result is logged.
OnCompleted(w) == w

\* worker.on('ready', ...): the health file is written; a failure to write it
\* is logged.
WorkerReady(fileOk) ==
    /\ Running
    /\ wk' = [wk EXCEPT !.ready = TRUE,
                        !.healthy = IF fileOk THEN TRUE ELSE @]
    /\ UNCHANGED <<minted, jobs, wait, execs, rows, audited, pending, http, adds, api>>

\* SIGINT or SIGTERM: shutdown() runs up to "await worker.close()".  Nothing
\* keeps a later signal from calling shutdown() again.
WorkerSignal ==
    /\ Running
    /\ Len(wk.calls) < MaxSignals
    /\ wk' = [wk EXCEPT !.calls = Append(@, "close"), !.closing = TRUE,
                        !.inFlightAtClose = IF wk.closing THEN @
                                            ELSE {e.job : e \in execs}]
    /\ UNCHANGED <<minted, jobs, wait, execs, rows, audited, pending, http, adds, api>>

\* A close that does not wait for the calls in flight (worker.close(true)).
DrainedForced == TRUE

\* worker.close() resolves once no call of processScanJob is in flight.
Drained == execs = {}

\* What an unhandled promise rejection does to the process: the runtime ends
\* it, or (runtimes that only warn) lets it run.
UnhandledRejection == {"crashed", "none"}

\* The invocation of shutdown() that resumes first: the oldest one waiting
\* at this await.
Resumes(i, at) ==
    /\ i \in DOMAIN wk.calls
    /\ wk.calls[i] = at
    /\ \A k \in 1..(i - 1) : wk.calls[k] # at

\* shutdown() after "await worker.close()": pool.end() is called.  A second
\* call of pool.end() rejects, shutdown() rejects and nothing handles it.
ShutdownEndPool(i) ==
    /\ Running
    /\ Resumes(i, "close")
    /\ Drained
    /\ IF wk.ending
       THEN \E outcome \in UnhandledRejection :
                wk' = [wk EXCEPT !.calls[i] = "rejected", !.exit = outcome]
       ELSE wk' = [wk EXCEPT !.calls[i] = "end", !.ending = TRUE,
                             !.released = Append(@, "worker")]
    /\ UNCHANGED <<minted, jobs, wait, execs, rows, audited, pending, http, adds, api>>

\* shutdown() after "await pool.end()": the health file is removed if it is
\* there (a failure is logged) and the process exits with status 0.
ShutdownExit(i, unlinkOk) ==
    /\ Running
    /\ Resumes(i, "end")
    /\ wk' = [wk EXCEPT !.calls[i] = "done",
                        !.released = Append(@, "pool"),
                        !.healthy = IF unlinkOk THEN FALSE ELSE @,
                        !.unlinkFailed = wk.healthy /\ ~unlinkOk,
                        !.exit = "exit0"]
    /\ UNCHANGED <<minted, jobs, wait, execs, rows, audited, pending, http, adds, api>>

\* pool.query on a pool whose end() was called rejects.
PoolEnded == wk.ending

\* The worker fetches jobs while it runs and close() was not called.
Accepting == Running /\ ~wk.closing

\* A worker that takes jobs whatever the number of calls in flight.
MayLeaseAlways == TRUE

\* The worker takes the next waiting job when fewer than Concurrency calls of
\* processScanJob are in flight.
MayLease == Cardinality(execs) < Concurrency

Lease ==
    /\ Accepting
    /\ MayLease
    /\ Len(wait) > 0
    /\ LET j == Head(wait)
           job == [jobs[j] EXCEPT !.state = "active", !.lock = @ + 1]
       IN  /\ jobs' = [jobs EXCEPT ![j] = job]
           /\ wait' = Tail(wait)
           /\ execs' = execs \cup {NewExec(job)}
    /\ UNCHANGED <<minted, rows, audited, pending, http, adds, wk, api>>

\* One execution moves from e to e2; nothing else changes.
Advance(e, e2) ==
    /\ Running
    /\ execs' = (execs \ {e}) \cup {e2}
    /\ UNCHANGED <<minted, jobs, wait, rows, audited, pending, http, adds, wk, api>>

\* puppeteer.launch(...)
Launch(e, r) ==
    /\ e.pc = "launch"
    /\ Advance(e, IF r.threw THEN Caught(e, "launch", r)
                  ELSE [e EXCEPT !.browser = "open", !.pc = "newPage"])

\* browser.newPage(); page.setDefaultNavigationTimeout(30000)
NewPage(e, r) ==
    /\ e.pc = "newPage"
    /\ Advance(e, IF r.threw THEN Caught(e, "newPage", r)
                  ELSE [e EXCEPT !.pc = "goto"])

\* page.goto(urlToScan); actualUrl = response?.url() || urlToScan
Goto(e, r) ==
    /\ e.pc = "goto"
    /\ Advance(e, IF r.threw THEN Caught(e, "goto", r)
                  ELSE [e EXCEPT !.actualUrl = Some(jobs[e.job].data.submittedUrl),
                                 !.pc = "title"])

\* scanResult.pageTitle = await page.title()
Title(e, r, title) ==
    /\ e.pc = "title"
    /\ Advance(e, IF r.threw THEN Caught(e, "title", r)
                  ELSE [e EXCEPT !.pageTitle = Some(title), !.pc = "inject"])

\* fs.promises.readFile(require.resolve('axe-core')); page.evaluate(axeScript)
Inject(e, r) ==
    /\ e.pc = "inject"
    /\ Advance(e, IF r.threw THEN Caught(e, "inject", r)
                  ELSE [e EXCEPT !.pc = "screenshot"])

\* page.screenshot(...) in its own try/catch
Screenshot(e, r) ==
    /\ e.pc = "screenshot"
    /\ Advance(e, IF r.threw THEN ScreenshotFailed(e, r)
                  ELSE [e EXCEPT !.screenshot = Some(Str("/9j/")), !.pc = "axe"])

\* page.evaluate(() => window.axe.run()); scanSucceeded = true
Axe(e, r, violations) ==
    /\ e.pc = "axe"
    /\ Running
    /\ execs' = (execs \ {e}) \cup
           {IF r.threw THEN Caught(e, "axe", r)
            ELSE [e EXCEPT !.axeResults = Some([violations |-> violations]),
                           !.scanSucceeded = TRUE, !.pc = "close"]}
    /\ audited' = IF r.threw THEN audited ELSE audited \cup {e.job}
    /\ UNCHANGED <<minted, jobs, wait, rows, pending, http, adds, wk, api>>

\* finally { if (browser) await browser.close() }: when close() rejects, the
\* error leaves processScanJob and no store write is made.
Close(e, r) ==
    /\ e.pc = "close"
    /\ Advance(e, IF r.threw
                  THEN [e EXCEPT !.browser = "closeFailed", !.pc = "report",
                                 !.thrown = Some(r.message)]
                  ELSE [e EXCEPT !.browser = "closed", !.pc = "save"])

\* saveScanResultToDb(job, scanResult) and the rest of processScanJob up to
\* its return statement.
Save(e, storeUp) ==
    /\ e.pc = "save"
    /\ Running
    /\ LET job == jobs[e.job]
           values == InsertValues(job, e)
           dbErr == IF PoolEnded
                    THEN Some(Str("Cannot use a pool after calling end on the pool"))
                    ELSE QueryError(rows, values, storeUp)
           dbSaveSuccess == ~IsPresent(dbErr)
           dbErrorMessage == IF dbSaveSuccess THEN Absent
                             ELSE Some(DbErrorMessage(Get(dbErr)))
       IN  /\ rows' = Inserted(rows, values, dbErr)
           /\ execs' = (execs \ {e}) \cup
                  {[e EXCEPT !.dbSaveSuccess = dbSaveSuccess,
                             !.dbErrorMessage = dbErrorMessage,
                             !.returned = Some(ReturnValue(job, e, dbSaveSuccess,
                                                           dbErrorMessage)),
                             !.pc = "report"]}
    /\ UNCHANGED <<minted, jobs, wait, audited, pending, http, adds, wk, api>>

\* pool.query(insertQuery, values) is never answered: the pool has no
\* connection, statement or query timeout, so the call stays pending.
SaveHangs(e) ==
    /\ e.pc = "save"
    /\ Advance(e, [e EXCEPT !.pc = "hung"])

\* ----------------------------------------------------------------- the broker
\* A broker that fails the job only once attemptsMade has passed the
\* configured attempts.
FinishedOneAttemptLate(job, e) ==
    IF IsPresent(e.returned)
    THEN [job EXCEPT !.state = "completed", !.attemptsMade = @ + 1,
                     !.returnvalue = e.returned]
    ELSE [job EXCEPT !.state = IF job.attemptsMade + 1 <= Attempts
                               THEN "delayed" ELSE "failed",
                     !.attemptsMade = @ + 1,
                     !.failedReason = e.thrown]

\* The job after the worker reports the end of processScanJob: a returned
\* value completes the job, a thrown error fails the attempt, and the attempt
\* is repeated while attemptsMade stays below the configured attempts.
Finished(job, e) ==
    IF IsPresent(e.returned)
    THEN [job EXCEPT !.state = "completed", !.attemptsMade = @ + 1,
                     !.returnvalue = e.returned]
    ELSE [job EXCEPT !.state = IF job.attemptsMade + 1 < Attempts
                               THEN "delayed" ELSE "failed",
                     !.attemptsMade = @ + 1,
                     !.failedReason = e.thrown]

\* The worker tells the broker how the call ended and frees the slot.  A
\* report for a lock the worker no longer holds changes nothing in the job.
Report(e) ==
    /\ e.pc = "report"
    /\ Running
    /\ wk' = IF IsPresent(e.thrown) THEN OnFailed(wk) ELSE OnCompleted(wk)
    /\ LET job == jobs[e.job]
       IN  jobs' = IF job.state = "active" /\ job.lock = e.lock
                   THEN [jobs EXCEPT ![e.job] = Finished(job, e)]
                   ELSE jobs
    /\ execs' = execs \ {e}
    /\ UNCHANGED <<minted, wait, rows, audited, pending, http, adds, api>>

\* The backoff delay of a failed attempt has passed.
Promote(j) ==
    /\ jobs[j].state = "delayed"
    /\ jobs' = [jobs EXCEPT ![j].state = "waiting"]
    /\ wait' = Append(wait, j)
    /\ UNCHANGED <<minted, execs, rows, audited, pending, http, adds, wk, api>>

\* The lock of an active job expired without renewal.  The broker makes the
\* job visible again, or fails it once it stalled more than maxStalledCount
\* times; the execution that held the lock may still be running.
Stalled(j) ==
    /\ jobs[j].state = "active"
    /\ IF jobs[j].stalledCounter + 1 > maxStalledCount
       THEN /\ jobs' = [jobs EXCEPT ![j].state = "failed",
                                    ![j].stalledCounter = @ + 1,
                                    ![j].failedReason =
                                        Some(Str("job stalled more than allowable limit"))]
            /\ UNCHANGED wait
       ELSE /\ jobs' = [jobs EXCEPT ![j].state = "waiting",
                                    ![j].stalledCounter = @ + 1]
            /\ wait' = Append(wait, j)
    /\ UNCHANGED <<minted, execs, rows, audited, pending, http, adds, wk, api>>

\* ------------------------------------------------------------ the query side
\* A SELECT without the WHERE clause.
SelectRowsUnfiltered(table, id) == 1..Len(table)

\* SELECT * FROM scan_results WHERE job_id = $1 OR original_job_id = $1
SelectRows(table, id) ==
    {i \in 1..Len(table) : table[i].job_id = id \/ table[i].original_job_id = id}

\* The status GET /api/scan-results/:jobId answers with.
ScanResultsStatus(id) == IF SelectRows(rows, id) = {} THEN 404 ELSE 200

\* A query that removes the rows it returns.
AfterSelectConsumed(table, id) ==
    SelectSeq(table, LAMBDA row : row.job_id # id /\ row.original_job_id # id)

\* The table after the SELECT statement: as before.
AfterSelect(table, id) == table

\* rows[0] of the rows the SELECT returned.
FirstRow(table, id) ==
    table[CHOOSE i \in SelectRows(table, id) : \A k \in SelectRows(table, id) : i <= k]

\* The value of a jsonb column as the driver hands it over: the parsed JSON.
FromJsonb(o) == IF IsPresent(o) THEN Some(Get(o).json) ELSE Absent

\* The body of the 200 response of GET /api/scan-results/:jobId: the row,
\* its violations parsed.
ScanResult(row) == [row EXCEPT !.violations = FromJsonb(row.violations)]

\* A switch whose case 'serious' falls into the case 'moderate'.
ImpactWeightSeriousAsModerate(impact) ==
    CASE impact = "critical" -> 10
      [] impact = "serious" -> 2
      [] impact = "moderate" -> 2
      [] OTHER -> 1

\* The points one failing node of a violation costs.
ImpactWeight(impact) ==
    CASE impact = "critical" -> 10
      [] impact = "serious" -> 5
      [] impact = "moderate" -> 2
      [] OTHER -> 1

RECURSIVE ScoreAfter(_, _)
ScoreAfter(score, axeViolations) ==
    IF axeViolations = <<>> THEN score
    ELSE ScoreAfter(score - Head(axeViolations).nodes * ImpactWeight(Head(axeViolations).impact),
                    Tail(axeViolations))

Max(a, b) == IF a >= b THEN a ELSE b

Min(a, b) == IF a <= b THEN a ELSE b

\* calculateAccessibilityScoreReport: the score is whole, Math.round keeps it.
calculateAccessibilityScoreReport(axeViolations) ==
    Max(0, Min(100, ScoreAfter(100, axeViolations)))

\* v.some((item) => item.impact === impact)
SomeImpact(v, impact) == \E i \in 1..Len(v) : v[i].impact = impact

\* The tests for critical and serious in the other order.
calculatePageHealthReportSeriousFirst(violations, score) ==
    IF SomeImpact(violations, "serious") THEN "Serious Concerns"
    ELSE IF SomeImpact(violations, "critical") THEN "Critical Issues"
    ELSE IF score < 85 \/ SomeImpact(violations, "moderate") THEN "Needs Improvement"
    ELSE "Good Shape"

\* calculatePageHealthReport: the level of the page health status.
calculatePageHealthReport(violations, score) ==
    IF SomeImpact(violations, "critical") THEN "Critical Issues"
    ELSE IF SomeImpact(violations, "serious") THEN "Serious Concerns"
    ELSE IF score < 85 \/ SomeImpact(violations, "moderate") THEN "Needs Improvement"
    ELSE "Good Shape"

RECURSIVE TotalNodes(_)
TotalNodes(axeViolations) ==
    IF axeViolations = <<>> THEN 0
    ELSE Head(axeViolations).nodes + TotalNodes(Tail(axeViolations))

\* generateReportHtml(dbResult): the values the page shows.
generateReportHtml(dbResult) ==
    LET axeViolations == dbResult.violations
        accessibilityScore == calculateAccessibilityScoreReport(axeViolations)
    IN  [scannedUrl |-> IF IsPresent(dbResult.actual_url)
                        THEN Get(dbResult.actual_url) ELSE dbResult.submitted_url,
         pageTitle |-> IF IsPresent(dbResult.page_title)
                       THEN Get(dbResult.page_title) ELSE EmptyString,
         accessibilityScore |-> accessibilityScore,
         pageHealthStatus |-> calculatePageHealthReport(axeViolations, accessibilityScore),
         totalViolations |-> TotalNodes(axeViolations),
         pageScreenshot |-> dbResult.page_screenshot,
         violations |-> axeViolations]

\* The row as GET /api/export-report/:jobId hands it to generateReportHtml:
\* absent violations become the empty list.
ReportInput(row) ==
    [row EXCEPT !.violations = IF IsPresent(row.violations)
                               THEN Get(FromJsonb(row.violations)) ELSE <<>>]

\* GET /api/scan-results/:jobId; pool.query answers (storeUp) or throws.
GetScanResults(id, storeUp) ==
    LET req == [jobId |-> id]
    IN  /\ ApiAccepting
        /\ http' = Some(
               IF ~storeUp
               THEN Response("scan-results", req, 500,
                        [message |-> "Internal server error while fetching scan result"])
               ELSE IF SelectRows(rows, id) = {}
               THEN Response("scan-results", req, 404,
                        [message |-> "Scan result not found"])
               ELSE Response("scan-results", req, 200, ScanResult(FirstRow(rows, id))))
        /\ rows' = IF storeUp THEN AfterSelect(rows, id) ELSE rows
        /\ UNCHANGED <<minted, jobs, wait, execs, audited, pending, adds, wk, api>>

\* A handler that answers 404 for the row of a scan that failed.
ExportReportOfSuccessOnly(id, storeUp) ==
    LET req == [jobId |-> id]
    IN  /\ ApiAccepting
        /\ http' = Some(
               IF ~storeUp
               THEN Response("export-report", req, 500,
                        [message |-> "Internal server error while generating HTML report"])
               ELSE IF SelectRows(rows, id) = {} \/ ~FirstRow(rows, id).scan_success
               THEN Response("export-report", req, 404,
                        [message |-> "Scan result not found"])
               ELSE Response("export-report", req, 200,
                        [html |-> generateReportHtml(ReportInput(FirstRow(rows, id)))]))
        /\ rows' = IF storeUp THEN AfterSelect(rows, id) ELSE rows
        /\ UNCHANGED <<minted, jobs, wait, execs, audited, pending, adds, wk, api>>

\* GET /api/export-report/:jobId
ExportReport(id, storeUp) ==
    LET req == [jobId |-> id]
    IN  /\ ApiAccepting
        /\ http' = Some(
               IF ~storeUp
               THEN Response("export-report", req, 500,
                        [message |-> "Internal server error while generating HTML report"])
               ELSE IF SelectRows(rows, id) = {}
               THEN Response("export-report", req, 404,
                        [message |-> "Scan result not found"])
               ELSE Response("export-report", req, 200,
                        [html |-> generateReportHtml(ReportInput(FirstRow(rows, id)))]))
        /\ rows' = IF storeUp THEN AfterSelect(rows, id) ELSE rows
        /\ UNCHANGED <<minted, jobs, wait, execs, audited, pending, adds, wk, api>>

Init ==
    /\ minted = 0
    /\ jobs = <<>>
    /\ wait = <<>>
    /\ execs = {}
    /\ rows = <<>>
    /\ audited = {}
    /\ pending = Absent
    /\ http = Absent
    /\ adds = 0
    /\ wk = NewWorkerProcess
    /\ api = NewApiProcess

\* ------------------------------------------------------------------- inputs
Bodies == {[url |-> JsString(<<"example.com">>)]}

Titles == {Str("Home")}

NoViolations == <<>>

OneViolation == <<[id |-> "image-alt", impact |-> "critical", nodes |-> 1]>>

ViolationLists == {NoViolations, OneViolation}

\* The names of the awaited calls of processScanJob.
Steps == {"launch", "newPage", "goto", "title", "inject", "screenshot", "axe", "close"}

\* The steps of the worker and the broker; outs[step] is the set of outcomes
\* the awaited call of that step is given.
WorkerNext(outs, titles, lists, storeUps) ==
    \/ Lease
    \/ \E e \in execs, r \in outs["launch"] : Launch(e, r)
    \/ \E e \in execs, r \in outs["newPage"] : NewPage(e, r)
    \/ \E e \in execs, r \in outs["goto"] : Goto(e, r)
    \/ \E e \in execs, r \in outs["title"], t \in titles : Title(e, r, t)
    \/ \E e \in execs, r \in outs["inject"] : Inject(e, r)
    \/ \E e \in execs, r \in outs["screenshot"] : Screenshot(e, r)
    \/ \E e \in execs, r \in outs["axe"], v \in lists : Axe(e, r, v)
    \/ \E e \in execs, r \in outs["close"] : Close(e, r)
    \/ \E e \in execs, up \in storeUps : Save(e, up)
    \/ \E e \in execs : Report(e)

\* The outcomes of the awaited calls: the two steps that call page.evaluate
\* reject with the page's errors, the others with the library's.
JobOutcomes ==
    [s \in Steps |-> IF s \in {"inject", "axe"} THEN PageOutcomes ELSE NodeOutcomes]

\* The life of one submitted job: every call may resolve or reject.
Next ==
    \/ \E body \in Bodies, up \in BOOLEAN : minted = 0 /\ ScanWebsite(body, up)
    \/ ScanWebsiteRespond
    \/ WorkerNext(JobOutcomes, Titles, ViolationLists, BOOLEAN)
    \/ \E j \in DOMAIN jobs : Promote(j)
    \/ \E j \in DOMAIN jobs : Stalled(j)

Spec == Init /\ [][Next]_vars

\* Several jobs in the pool: navigation may reject.
PoolOutcomes ==
    [s \in Steps |-> IF s = "goto" THEN NodeOutcomes ELSE {Resolved}]

PoolNext ==
    \/ \E body \in Bodies : ScanWebsite(body, TRUE)
    \/ ScanWebsiteRespond
    \/ WorkerNext(PoolOutcomes, Titles, {NoViolations}, BOOLEAN)

PoolSpec == Init /\ [][PoolNext]_vars

\* The request bodies of the gateway: urls with and without a scheme, with
\* blanks around them, a text that is no url, the empty and the blank
\* string, a number, and a body without the member.
GatewayBodies ==
    {[url |-> JsString(text)] :
        text \in {<<"example.com">>,
                  <<HttpsPrefix, "example.com">>,
                  <<HttpPrefix, "example.com">>,
                  <<FtpPrefix, "example.com">>,
                  <<Space, "example.com", Space>>,
                  <<Space, HttpsPrefix, "example.com">>,
                  <<"not a url">>,
                  <<HttpsPrefix>>,
                  <<Space>>,
                  EmptyString}}
    \cup {[url |-> JsNumber], [url |-> JsUndefined]}

\* The gateway alone: submissions of every body, the broker up or down.
GatewayNext ==
    \/ \E body \in GatewayBodies, up \in BOOLEAN : ScanWebsite(body, up)
    \/ ScanWebsiteRespond

GatewaySpec == Init /\ [][GatewayNext]_vars

\* The ids the query endpoints are asked for: the id of the one job of
\* QuerySpec and an id that is never submitted.
QueryIds == {1, MaxJobs}

\* The calls that may reject while the query endpoints are watched: the
\* navigation (a failure row) and browser.close() (a failed attempt).
QueryOutcomes ==
    [s \in Steps |-> IF s \in {"goto", "close"} THEN NodeOutcomes ELSE {Resolved}]

\* One job with retries and stalls, and the two query endpoints asked at any
\* time for any id.
QueryNext ==
    \/ \E body \in Bodies, up \in BOOLEAN : minted = 0 /\ ScanWebsite(body, up)
    \/ ScanWebsiteRespond
    \/ WorkerNext(QueryOutcomes, Titles, ViolationLists, BOOLEAN)
    \/ \E j \in DOMAIN jobs : Promote(j)
    \/ \E j \in DOMAIN jobs : Stalled(j)
    \/ \E id \in QueryIds, up \in BOOLEAN : GetScanResults(id, up)
    \/ \E id \in QueryIds, up \in BOOLEAN : ExportReport(id, up)

QuerySpec == Init /\ [][QueryNext]_vars

\* The impacts axe-core gives a violation.
Impacts == {"critical", "serious", "moderate", "minor"}

\* Numbers of failing nodes of one violation: one, a few, and enough for one
\* critical violation to use up the whole score.
NodeCounts == {1, 3, 11}

RuleViolations == [id : {"image-alt"}, impact : Impacts, nodes : NodeCounts]

\* The violation lists of at most MaxViolations violations.
ScoredLists ==
    UNION {[1..n -> RuleViolations] : n \in 0..MaxViolations}

AllResolved == [s \in Steps |-> {Resolved}]

\* One job whose audit returns any of the scored lists, a store that
\* answers, and the two query endpoints.
ScoreNext ==
    \/ \E body \in Bodies : minted = 0 /\ ScanWebsite(body, TRUE)
    \/ ScanWebsiteRespond
    \/ WorkerNext(AllResolved, Titles, ScoredLists, {TRUE})
    \/ GetScanResults(1, TRUE)
    \/ ExportReport(1, TRUE)

ScoreSpec == Init /\ [][ScoreNext]_vars

\* The worker process from its start to its end: jobs arrive and are scanned
\* while 'ready' events and termination signals come at any time.
DrainNext ==
    \/ \E body \in Bodies : ScanWebsite(body, TRUE)
    \/ ScanWebsiteRespond
    \/ WorkerNext(AllResolved, Titles, {NoViolations}, {TRUE})
    \/ \E fileOk \in BOOLEAN : WorkerReady(fileOk)
    \/ WorkerSignal
    \/ \E i \in 1..MaxSignals : ShutdownEndPool(i)
    \/ \E i \in 1..MaxSignals, unlinkOk \in BOOLEAN : ShutdownExit(i, unlinkOk)

DrainSpec == Init /\ [][DrainNext]_vars

\* One job, a store that may never answer, and a scheduler that runs every
\* continuation that can run: the event loop leaves no ready callback
\* waiting for ever.
FairDrainNext ==
    \/ \E body \in Bodies : minted = 0 /\ ScanWebsite(body, TRUE)
    \/ ScanWebsiteRespond
    \/ WorkerNext(AllResolved, Titles, {NoViolations}, {TRUE})
    \/ \E e \in execs : SaveHangs(e)
    \/ \E fileOk \in BOOLEAN : WorkerReady(fileOk)
    \/ WorkerSignal
    \/ \E i \in 1..MaxSignals : ShutdownEndPool(i)
    \/ \E i \in 1..MaxSignals, unlinkOk \in BOOLEAN : ShutdownExit(i, unlinkOk)

FairDrainSpec == Init /\ [][FairDrainNext]_vars /\ WF_vars(FairDrainNext)

\* Every awaited call of processScanJob may reject.
ErrorOutcomes == [s \in Steps |-> NodeOutcomes]

\* Two jobs in the pool while every call may reject and the store may be
\* unreachable; failed attempts are retried.
ErrorNext ==
    \/ \E body \in Bodies : minted < 2 /\ ScanWebsite(body, TRUE)
    \/ ScanWebsiteRespond
    \/ WorkerNext(ErrorOutcomes, Titles, {NoViolations}, BOOLEAN)
    \/ \E j \in DOMAIN jobs : Promote(j)

ErrorSpec == Init /\ [][ErrorNext]_vars

\* The two processes from start to exit with no job: probes, signals and the
\* steps of the two shutdown functions; a request that comes while the API
\* shuts down finds the queue or the pool as shutdown() left it.
LifecycleNext ==
    \/ \E fileOk \in BOOLEAN, brokerUp \in BOOLEAN, storeUp \in BOOLEAN :
           Healthz(fileOk, brokerUp, storeUp)
    \/ \E body \in Bodies : minted = 0 /\ ScanWebsite(body, ~api.queueClosed)
    \/ ScanWebsiteRespond
    \/ \E id \in QueryIds : GetScanResults(id, ~api.poolEnding)
    \/ \E signal \in DOMAIN signals : ApiSignal(signal)
    \/ \E i \in 1..MaxSignals, r \in NodeOutcomes : ApiShutdownEndPool(i, r)
    \/ \E i \in 1..MaxSignals, r \in NodeOutcomes : ApiShutdownCloseServer(i, r)
    \/ \E i \in 1..MaxSignals, unlinkOk \in BOOLEAN : ApiServerClosed(i, unlinkOk)
    \/ \E fileOk \in BOOLEAN : WorkerReady(fileOk)
    \/ WorkerSignal
    \/ \E i \in 1..MaxSignals : ShutdownEndPool(i)
    \/ \E i \in 1..MaxSignals, unlinkOk \in BOOLEAN : ShutdownExit(i, unlinkOk)

LifecycleSpec == Init /\ [][LifecycleNext]_vars

\* ============================================================== properties
Terminal(j) == jobs[j].state \in {"completed", "failed"}

InFlight(j) == {e \in execs : e.job = j}

RowsOf(jobId) == {i \in 1..Len(rows) : rows[i].job_id = jobId}

\* The row an execution inserted (its store write succeeded).
RowOf(e) == rows[CHOOSE i \in RowsOf(e.job) : TRUE]

Stored(e) == e.pc = "report" /\ e.dbSaveSuccess

\* C1: the broker holds a job as completed only if the pipeline succeeded and
\* the store write succeeded: the value kept with a completed job reports
\* success.
CompletedOnlyIfScanAndStoreSucceeded ==
    \A j \in DOMAIN jobs :
        jobs[j].state = "completed" => Get(jobs[j].returnvalue).success

\* C2: when an execution whose pipeline failed reports to the broker under a
\* lock it still holds, the broker counts a failed attempt: the job is
\* delayed for redelivery or, with the attempts used up, failed; it is not
\* completed.
FailedPipelineIsRetried ==
    [][\A e \in execs :
          (/\ e.pc = "report"
           /\ ~e.scanSucceeded
           /\ e \notin execs'
           /\ jobs[e.job].state = "active"
           /\ jobs[e.job].lock = e.lock)
          => /\ jobs'[e.job].state \in {"delayed", "failed"}
             /\ jobs'[e.job].attemptsMade = jobs[e.job].attemptsMade + 1]_vars

\* C3: the store never holds two rows with the same job id.
AtMostOneRowPerJobId ==
    \A j \in 1..MaxJobs : Cardinality(RowsOf(j)) <= 1

\* Two executions of one job are in flight; one inserted the row and the
\* INSERT of the other was rejected by the unique constraint.
DuplicateInsertRejected ==
    \E e1 \in execs, e2 \in execs :
        /\ e1.job = e2.job
        /\ e1.lock # e2.lock
        /\ Stored(e1)
        /\ e2.pc = "report"
        /\ e2.dbErrorMessage = Some(DbErrorMessage(Str("duplicate key value")))

\* C4: a job that settled (terminal, no execution left) without any of its
\* executions finishing the audit has exactly one row, with scan_success
\* false.
ExhaustedJobHasOneFailedRow ==
    \A j \in DOMAIN jobs :
        (Terminal(j) /\ InFlight(j) = {} /\ j \notin audited)
        => /\ Cardinality(RowsOf(j)) = 1
           /\ \A i \in RowsOf(j) : ~rows[i].scan_success

\* C5: a job accepted with 202 that has settled (terminal, no execution left)
\* is answered 200 by GET /api/scan-results/{jobId}.
SettledJobResolves ==
    \A j \in DOMAIN jobs :
        (Terminal(j) /\ InFlight(j) = {}) => ScanResultsStatus(j) = 200

\* C6: in every row, scan_success true goes with violations present and
\* error_message absent; scan_success false with violations absent and
\* error_message present.
RowShape ==
    \A i \in 1..Len(rows) :
        IF rows[i].scan_success
        THEN IsPresent(rows[i].violations) /\ ~IsPresent(rows[i].error_message)
        ELSE ~IsPresent(rows[i].violations) /\ IsPresent(rows[i].error_message)

\* A success row whose violation list is empty is stored.
EmptyViolationsRowStored ==
    \E i \in 1..Len(rows) :
        /\ rows[i].scan_success
        /\ rows[i].violations = Some(JSONStringify(NoViolations))

FailedPipelineStoresFailureRow ==
    \A e \in execs :
        (Stored(e) /\ ~e.scanSucceeded)
        => /\ ~RowOf(e).scan_success
           /\ IsPresent(RowOf(e).error_message)
           /\ Get(RowOf(e).error_message) # EmptyString
           /\ ~IsPresent(RowOf(e).violations)

\* C9: never more than Concurrency executions, nor more than Concurrency open
\* browser sessions, at once.
AtMostNExecutions ==
    /\ Cardinality(execs) <= Concurrency
    /\ Cardinality({e \in execs : e.browser = "open"}) <= Concurrency

\* Every slot holds an open browser while a job waits in the queue.
PoolFullWhileJobWaits ==
    /\ Cardinality({e \in execs : e.browser = "open"}) = Concurrency
    /\ Len(wait) > 0

\* C10: an execution that is past the finally block holds no open browser: it
\* never launched one (launch itself failed) or it closed the one it launched.
BrowserReleasedAtExit ==
    \A e \in execs :
        e.pc \in {"save", "report"}
        => /\ e.browser # "open"
           /\ e.browser = "none" => e.failedAt = "launch"
           /\ e.browser = "closeFailed" => IsPresent(e.thrown)

\* An execution that failed after the launch has closed its browser.
ClosedAfterException ==
    \E e \in execs :
        /\ e.pc = "save"
        /\ e.failedAt \in {"newPage", "goto", "title", "inject", "axe"}
        /\ e.browser = "closed"

\* ------------------------------------------------- properties of the gateway
\* The response the API sent last is a response of POST /api/scan-website
\* with this status.
ScanWebsiteAnswered(status) ==
    /\ IsPresent(http)
    /\ Get(http).route = "scan-website"
    /\ Get(http).status = status

\* This step sends a response of POST /api/scan-website.
ScanWebsiteAnswers ==
    /\ http' # http
    /\ Get(http').route = "scan-website"

\* C11: a POST /api/scan-website whose body fails the validation is answered
\* 400 in the step that receives it, and that step changes neither the jobs
\* of the broker nor its wait list, mints no id and calls scanQueue.add not
\* once; no request with such a body waits for an add.
InvalidBodyAnswered400 ==
    [][/\ (ScanWebsiteAnswers /\ ~scanWebsiteSchema(Get(http').req).success)
          => /\ Get(http').status = 400
             /\ UNCHANGED <<minted, jobs, wait, adds, pending>>
       /\ IsPresent(pending') => scanWebsiteSchema(Get(pending').req).success
      ]_vars

\* "not a url" was answered 400 after an earlier submission was enqueued.
InvalidBodyRefusedAfterAccepted ==
    /\ ScanWebsiteAnswered(400)
    /\ Get(http).req = [url |-> JsString(<<"not a url">>)]
    /\ DOMAIN jobs # {}

\* The normalized form of a text: a text that starts with http:// or
\* https:// as it is, any other text trimmed with https:// before it.
NormalizedUrl(text) ==
    IF StartsWith(text, HttpPrefix) \/ StartsWith(text, HttpsPrefix)
    THEN text
    ELSE <<HttpsPrefix>> \o Trim(text)

\* C12: the url of an accepted submission is the normalized form of the
\* submitted text, in the 202 response and in the payload of the job;
\* "example.com" is accepted as "https://example.com"; a submission is
\* answered 400 exactly when the url member is no string or its normalized
\* form is not a well-formed URL, as "not a url" is.
UrlNormalization ==
    /\ IsPresent(pending)
       => LET p == Get(pending)
          IN  /\ p.url = NormalizedUrl(p.req.url.text)
              /\ p.added => jobs[p.jobId].data.submittedUrl = p.url
    /\ ScanWebsiteAnswered(202)
       => LET r == Get(http)
          IN  /\ r.body.submittedUrl = NormalizedUrl(r.req.url.text)
              /\ jobs[r.body.jobId].data.submittedUrl = r.body.submittedUrl
              /\ r.req.url.text = <<"example.com">>
                 => r.body.submittedUrl = <<"https://", "example.com">>
    /\ (IsPresent(http) /\ Get(http).route = "scan-website")
       => LET r == Get(http)
          IN  /\ r.status = 400
                 <=> \/ r.req.url.type # "string"
                     \/ ~IsUrl(NormalizedUrl(r.req.url.text))
              /\ r.req.url = JsString(<<"not a url">>) => r.status = 400

\* "example.com" was accepted, enqueued and returned as "https://example.com".
SchemelessUrlAccepted ==
    /\ ScanWebsiteAnswered(202)
    /\ Get(http).req = [url |-> JsString(<<"example.com">>)]
    /\ Get(http).body.submittedUrl = <<"https://", "example.com">>
    /\ jobs[Get(http).body.jobId].data.submittedUrl = <<"https://", "example.com">>

\* C13: the response to a request whose add failed is 500 and carries no job
\* id; when it is sent the broker holds no job under the id minted for the
\* request, and scanQueue.add was called once for every id minted; later
\* only a freshly minted id enters the broker.
EnqueueFailureAnswered500 ==
    [][/\ (IsPresent(pending) /\ pending' = Absent /\ ~Get(pending).added)
          => /\ Get(http').route = "scan-website"
             /\ Get(http').status = 500
             /\ "jobId" \notin DOMAIN Get(http').body
             /\ Get(pending).jobId \notin DOMAIN jobs'
       /\ adds' = minted'
       /\ \A j \in DOMAIN jobs' \ DOMAIN jobs :
              IsPresent(pending') /\ Get(pending').jobId = j /\ j \notin 1..minted
      ]_vars

\* A request was answered 500 and the broker holds no job under its id.
EnqueueFailed ==
    /\ ScanWebsiteAnswered(500)
    /\ ~IsPresent(pending)
    /\ minted >= 1
    /\ minted \notin DOMAIN jobs
    /\ adds = minted

\* C14: an accepted submission is given an id that no earlier call of uuidv4
\* returned, the add puts exactly one job into the broker, under that id and
\* at one place of the wait list, with originalJobId equal to that id, and the
\* 202 response returns that id.
AcceptedSubmissionMintsFreshJob ==
    [][/\ (~IsPresent(pending) /\ IsPresent(pending') /\ Get(pending').added)
          => LET id == Get(pending').jobId
             IN  /\ id \notin 1..minted
                 /\ id \notin DOMAIN jobs
                 /\ DOMAIN jobs' = DOMAIN jobs \cup {id}
                 /\ \A j \in DOMAIN jobs : jobs'[j] = jobs[j]
                 /\ jobs'[id].id = id
                 /\ jobs'[id].data.originalJobId = id
                 /\ wait' = Append(wait, id)
                 /\ id \notin {wait[k] : k \in 1..Len(wait)}
       /\ (IsPresent(pending) /\ pending' = Absent /\ Get(pending).added)
          => /\ Get(http').status = 202
             /\ Get(http').body.jobId = Get(pending).jobId
             /\ UNCHANGED <<jobs, wait>>
      ]_vars

\* The same body was submitted twice and the broker holds two jobs for it.
SameUrlTwoJobs ==
    /\ ScanWebsiteAnswered(202)
    /\ \E j1 \in DOMAIN jobs, j2 \in DOMAIN jobs :
           /\ j1 # j2
           /\ j2 = Get(http).body.jobId
           /\ jobs[j1].data.submittedUrl = jobs[j2].data.submittedUrl
           /\ Get(http).req = [url |-> JsString(jobs[j1].data.submittedUrl)]

\* C15: whenever a request waits at "await scanQueue.add", its response can
\* be sent next, whatever the state of its job and of the worker.
ResponseDoesNotWaitForWorker ==
    IsPresent(pending) => ENABLED ScanWebsiteRespond

\* The 202 response was sent while its job was waiting, never leased, with
\* no execution and no row, and the worker was busy with an earlier job.
RespondedWhileQueued ==
    /\ ScanWebsiteAnswered(202)
    /\ LET j == Get(http).body.jobId
       IN  /\ jobs[j].state = "waiting"
           /\ jobs[j].lock = 0
           /\ {e \in execs : e.job = j} = {}
           /\ {i \in 1..Len(rows) : rows[i].job_id = j} = {}
    /\ execs # {}

\* -------------------------------------------- properties of the query side
QueryRoutes == {"scan-results", "export-report"}

\* This step sends a response of one of the two query endpoints.
QueryAnswers ==
    /\ http' # http
    /\ Get(http').route \in QueryRoutes

\* The response the API sent last is a response of this query endpoint with
\* this status.
QueryAnswered(route, status) ==
    /\ IsPresent(http)
    /\ Get(http).route = route
    /\ Get(http).status = status

\* The rows of the store whose job_id or original_job_id is id.
Matching(id) ==
    {i \in 1..Len(rows) : rows[i].job_id = id \/ rows[i].original_job_id = id}

ResultFrom(table, id) ==
    LET found == {i \in 1..Len(table) :
                     table[i].job_id = id \/ table[i].original_job_id = id}
        first == CHOOSE i \in found : \A k \in found : i <= k
    IN  IF found = {} THEN Absent
        ELSE Some([table[first] EXCEPT
                      !.violations = IF IsPresent(@) THEN Some(Get(@).json) ELSE @])

\* C17: a 200 response of GET /api/scan-results carries the result of the
\* store for the id, and once the store has a result for an id no step
\* changes it: every later GET the store answers is answered 200 with the
\* same content.
ResultStableOnceServed ==
    [][/\ \A id \in QueryIds :
              IsPresent(ResultFrom(rows, id)) => ResultFrom(rows', id) = ResultFrom(rows, id)
       /\ (QueryAnswers /\ Get(http').route = "scan-results" /\ Get(http').status # 500)
          => LET id == Get(http').req.jobId
             IN  IF IsPresent(ResultFrom(rows, id))
                 THEN /\ Get(http').status = 200
                      /\ Get(http').body = Get(ResultFrom(rows, id))
                 ELSE Get(http').status = 404
      ]_vars

\* The result of a job was served with 200 and a later delivery of the job
\* tried to write again.
ServedAndWrittenAgain ==
    /\ QueryAnswered("scan-results", 200)
    /\ \E e \in execs :
           /\ e.job = Get(http).req.jobId
           /\ e.pc = "report"
           /\ e.lock > 1
           /\ IsPresent(e.dbErrorMessage)
           /\ Get(http).body.scan_success # e.scanSucceeded

\* C18: a step in which a query endpoint answers changes neither the rows
\* of the store nor the jobs and the wait list of the broker.
QueriesChangeNothing ==
    [][QueryAnswers => UNCHANGED <<rows, jobs, wait, execs, minted, adds>>]_vars

\* A report was served with 200 for a job the broker holds.
ReportServed ==
    /\ QueryAnswered("export-report", 200)
    /\ Get(http).req.jobId \in DOMAIN jobs
    /\ Matching(Get(http).req.jobId) # {}

\* ------------------------------------------------ properties of redelivery
\* C19: a job is never leased more often than the configured attempts, the
\* leases the broker took back after a stall not counted, and it never counts
\* more failed or completed attempts than that; a job that is completed or
\* failed is not changed, not put on the wait list and not leased again (an
\* execution that lost its lease may still be running).
DeliveriesBounded ==
    [][\A j \in DOMAIN jobs' :
          /\ jobs'[j].attemptsMade <= Attempts
          /\ jobs'[j].lock - jobs'[j].stalledCounter <= Attempts
          /\ (j \in DOMAIN jobs /\ Terminal(j))
             => /\ jobs'[j] = jobs[j]
                /\ \A e2 \in execs' : e2.job = j
                       => \E e \in execs : e.job = j /\ e.lock = e2.lock
                /\ \A k \in 1..Len(wait') : wait'[k] # j
      ]_vars

\* A job failed for good with its third attempt, after three deliveries and
\* no stall.
ThirdAttemptFailed ==
    \E j \in DOMAIN jobs :
        /\ jobs[j].state = "failed"
        /\ jobs[j].attemptsMade = Attempts
        /\ jobs[j].lock = Attempts
        /\ jobs[j].stalledCounter = 0
        /\ InFlight(j) = {}

\* C20: when saveScanResultToDb runs for a job id that already has a row and
\* the store is reachable, the write is reported as successful and the job id
\* keeps one row.
RewriteReportedSuccessful ==
    [][\A e \in execs : \A e2 \in execs' :
          (/\ e.pc = "save"
           /\ e2.job = e.job
           /\ e2.lock = e.lock
           /\ e2.pc = "report"
           /\ RowsOf(e.job) # {}
           /\ e2.dbErrorMessage # Some(DbErrorMessage(Str("connection terminated"))))
          => /\ e2.dbSaveSuccess
             /\ Cardinality({i \in 1..Len(rows') : rows'[i].job_id = e.job}) = 1
      ]_vars

\* C26: an execution that reports to the broker has made its store write
\* attempt before, whatever the outcome of its pipeline.
StoreWriteBeforeReport ==
    \A e \in execs : e.pc = "report" => IsPresent(e.returned)

\* The order of the awaited calls of the pipeline.
StepOrder ==
    <<"launch", "newPage", "goto", "title", "inject", "screenshot", "axe", "close">>

StepIndex(pc) == CHOOSE i \in 1..Len(StepOrder) : StepOrder[i] = pc

TitleFailureNeverAborts ==
    \A e \in execs : e.failedAt = "title" => ~IsPresent(e.processingError)

\* The points the README gives one failing node of each impact.
PointsPerNode == [critical |-> 10, serious |-> 5, moderate |-> 2, minor |-> 1]

\* The sum over the violations of the list of points per node times nodes.
RECURSIVE Deduction(_)
Deduction(list) ==
    IF Len(list) = 0 THEN 0
    ELSE PointsPerNode[list[Len(list)].impact] * list[Len(list)].nodes
         + Deduction(SubSeq(list, 1, Len(list) - 1))

Clamped(n) == IF n < 0 THEN 0 ELSE IF n > 100 THEN 100 ELSE n

\* The columns of table scan_results.
ScanResultsColumns ==
    {"job_id", "original_job_id", "submitted_url", "actual_url", "page_title",
     "scan_success", "violations", "error_message", "page_screenshot"}

\* C24: the score of a served report is 100 minus the sum of weight times
\* nodes over the stored violations (critical 10, serious 5, moderate 2,
\* minor 1), clamped to 0..100; it is computed from the stored violations
\* when the report is read, the store has no column for it, and the answer of
\* GET /api/scan-results carries none.
ScoreIsWeightedSum ==
    /\ \A i \in 1..Len(rows) : DOMAIN rows[i] = ScanResultsColumns
    /\ QueryAnswered("scan-results", 200)
       => DOMAIN Get(http).body = ScanResultsColumns
    /\ QueryAnswered("export-report", 200)
       => LET stored == Get(ResultFrom(rows, Get(http).req.jobId)).violations
              list == IF IsPresent(stored) THEN Get(stored) ELSE <<>>
          IN  Get(http).body.html.accessibilityScore = Clamped(100 - Deduction(list))

\* A served report scored 75: one critical node and three serious nodes.
ReportScored75 ==
    /\ QueryAnswered("export-report", 200)
    /\ Get(http).body.html.accessibilityScore = 75
    /\ Get(http).body.html.violations =
           <<[id |-> "image-alt", impact |-> "critical", nodes |-> 1],
             [id |-> "image-alt", impact |-> "serious", nodes |-> 3]>>

\* The message of the store write of an execution that used the pool after
\* pool.end() was called.
UsedAfterEnd ==
    Some(DbErrorMessage(Str("Cannot use a pool after calling end on the pool")))

\* C21: once worker.close() was called no job is leased; pool.end() is
\* called only when no execution is in flight, and no execution makes its
\* store write on a pool whose end() was called.
DrainBeforePoolEnd ==
    [][/\ wk.closing
          => \A e2 \in execs' : \E e \in execs : e.job = e2.job /\ e.lock = e2.lock
       /\ wk'.ending => execs' = {}
       /\ \A e2 \in execs' : e2.dbErrorMessage # UsedAfterEnd
      ]_vars

\* The process exited after a shutdown that found an execution in flight: the
\* execution stored its row before the pool was ended, and a job that was
\* waiting is still waiting.
DrainedThenExited ==
    /\ wk.exit = "exit0"
    /\ wk.inFlightAtClose # {}
    /\ \A j \in wk.inFlightAtClose : RowsOf(j) # {} /\ jobs[j].state = "completed"
    /\ Len(wait) > 0

\* C22: a shutdown that started ends: the process exits.
ShutdownTerminates == wk.closing ~> wk.exit # "none"

\* C30: the file /tmp/healthy_worker is there only after a 'ready' event, it
\* is written by the 'ready' handler alone, and it is gone when shutdown()
\* exits the process, unless removing it failed.
HealthFileFollowsReadiness ==
    [][/\ wk'.healthy => wk'.ready
       /\ (wk'.healthy /\ ~wk.healthy) => WorkerReady(TRUE)
       /\ (wk'.exit = "exit0" /\ ~wk'.unlinkFailed) => ~wk'.healthy
      ]_vars

\* The process exited with status 0 after it had been ready with its health
\* file written, and the file is gone.
ExitedWithoutHealthFile ==
    wk.exit = "exit0" /\ wk.ready /\ ~wk.healthy /\ ~wk.unlinkFailed /\ wk.released = <<"worker", "pool">>

\* The next step of an execution whose awaited call resolves.
Continues(e) ==
    \/ Launch(e, Resolved) \/ NewPage(e, Resolved) \/ Goto(e, Resolved)
    \/ \E t \in Titles : Title(e, Resolved, t)
    \/ Inject(e, Resolved) \/ Screenshot(e, Resolved)
    \/ Axe(e, Resolved, NoViolations)
    \/ Close(e, Resolved) \/ Save(e, TRUE) \/ Report(e)

\* C23: whatever errors the calls of the executions raised, the worker
\* process runs and its pool is open: every execution in flight can take its
\* next step, and a waiting job is leased as soon as a slot is free.
ErrorsStayInTheirSlot ==
    /\ wk.exit = "none"
    /\ ~wk.closing
    /\ \A e \in execs : ENABLED Continues(e)
    /\ (Len(wait) > 0 /\ Cardinality(execs) < Concurrency) => ENABLED Lease

\* An attempt of job 1 ended with a thrown error and the job was leased
\* again, while job 2 was stored as a failed scan and as completed.
LeasedAgainAfterErrors ==
    /\ 2 \in DOMAIN jobs
    /\ jobs[1].attemptsMade >= 1
    /\ IsPresent(jobs[1].failedReason)
    /\ \E e \in execs : e.job = 1 /\ e.lock = 2
    /\ jobs[2].state = "completed"
    /\ \E i \in RowsOf(2) : ~rows[i].scan_success

\* C25: GET /healthz answers 200 exactly when the broker and the store are
\* reachable.
HealthzReflectsDependencies ==
    (IsPresent(http) /\ Get(http).route = "healthz")
    => (Get(http).status = 200 <=> (Get(http).req.broker /\ Get(http).req.store))

IsPrefix(s, t) == Len(s) <= Len(t) /\ s = SubSeq(t, 1, Len(s))

\* C29: each process releases what it acquired in the reverse of the order
\* of acquisition: the worker its Worker, its pool, its broker connection;
\* the API its HTTP server, its pool, its queue.
ReleasedInReverseOrder ==
    /\ IsPrefix(wk.released, <<"worker", "pool", "connection">>)
    /\ IsPrefix(api.released, <<"server", "pool", "queue">>)

\* The jobs the broker holds in this terminal state.
Retained(state) == {j \in DOMAIN jobs : jobs[j].state = state}

\* C31: the broker holds at most MaxRetained completed jobs and at most
\* MaxRetained failed jobs.
RetentionBounded ==
    /\ Cardinality(Retained("completed")) <= MaxRetained
    /\ Cardinality(Retained("failed")) <= MaxRetained

\* C32: a row of the store is never changed or removed, and no job id gets a
\* second row: the row the first execution of a job stored stays as it is,
\* whatever a later execution of the job found.
FirstWriterWins ==
    [][/\ \A i \in 1..Len(rows) : i <= Len(rows') /\ rows'[i] = rows[i]
       /\ \A i \in 1..Len(rows') : \A k \in 1..Len(rows') :
              rows'[i].job_id = rows'[k].job_id => i = k
      ]_vars

\* The store holds the failure row of a job, and a later execution of the
\* job whose pipeline succeeded has made its store write, which was refused.
SuccessAfterStoredFailure ==
    \E i \in 1..Len(rows) : \E e \in execs :
        /\ ~rows[i].scan_success
        /\ e.job = rows[i].job_id
        /\ e.pc = "report"
        /\ e.scanSucceeded
        /\ ~e.dbSaveSuccess
        /\ e.dbErrorMessage = Some(DbErrorMessage(Str("duplicate key value")))

\* C33: a call of processScanJob ends with a thrown error exactly when
\* browser.close() rejected, and then it has made no store write; every other
\* call ends with a returned value whose success is true or false.
ThrowsOnlyWhenCloseFails ==
    [][\A e2 \in execs' :
          e2.pc = "report"
          => /\ IsPresent(e2.thrown) <=> e2.browser = "closeFailed"
             /\ IsPresent(e2.thrown) <=> ~IsPresent(e2.returned)
             /\ IsPresent(e2.returned) => Get(e2.returned).success \in BOOLEAN
             /\ IsPresent(e2.thrown)
                => /\ ~e2.dbSaveSuccess
                   /\ ~IsPresent(e2.dbErrorMessage)
                   /\ e2 \notin execs => rows' = rows
      ]_vars

\* A call whose audit succeeded ends with the error of browser.close(), and
\* the store has no row of its job.
ThrownAfterSuccessfulAudit ==
    \E e \in execs :
        /\ e.pc = "report"
        /\ IsPresent(e.thrown)
        /\ e.scanSucceeded
        /\ RowsOf(e.job) = {}

\* C34: every row has original_job_id equal to job_id, and for every id the
\* lookup job_id = id OR original_job_id = id matches at most one row.
OriginalJobIdIsJobId ==
    /\ \A i \in 1..Len(rows) : rows[i].original_job_id = rows[i].job_id
    /\ \A id \in 1..MaxJobs : Cardinality(Matching(id)) <= 1

\* The store holds the rows of two jobs, each matched by its own id alone.
TwoJobsTwoRows ==
    /\ RowsOf(1) # {}
    /\ RowsOf(2) # {}
    /\ Matching(1) = RowsOf(1)
    /\ Matching(2) = RowsOf(2)

\* The impacts of the violations of a list.
ImpactsOf(list) == {list[i].impact : i \in 1..Len(list)}

\* C35: the health label of a served report follows the strict priority:
\* 'Critical Issues' with any critical violation; otherwise 'Serious
\* Concerns' with any serious one; otherwise 'Needs Improvement' with a score
\* below 85 or any moderate violation; otherwise 'Good Shape'.
HealthLabelByPriority ==
    QueryAnswered("export-report", 200)
    => LET html == Get(http).body.html
           found == ImpactsOf(html.violations)
           label == html.pageHealthStatus
       IN  /\ "critical" \in found => label = "Critical Issues"
           /\ ("critical" \notin found /\ "serious" \in found)
              => label = "Serious Concerns"
           /\ (found \cap {"critical", "serious"} = {}
               /\ (html.accessibilityScore < 85 \/ "moderate" \in found))
              => label = "Needs Improvement"
           /\ (found \cap {"critical", "serious", "moderate"} = {}
               /\ html.accessibilityScore >= 85)
              => label = "Good Shape"

\* A served report with minor violations only and a score below 85 is
\* labelled 'Needs Improvement'.
MinorOnlyNeedsImprovement ==
    /\ QueryAnswered("export-report", 200)
    /\ ImpactsOf(Get(http).body.html.violations) = {"minor"}
    /\ Get(http).body.html.accessibilityScore < 85
    /\ Get(http).body.html.pageHealthStatus = "Needs Improvement"

\* C36: when the store answers GET /api/export-report for an id whose row
\* has scan_success false and no violations, the answer is 200 and the report
\* shows an empty violation list, score 100, 'Good Shape' and no violations
\* in total.
FailedScanReportedAsGoodShape ==
    [][(QueryAnswers /\ Get(http').route = "export-report" /\ Get(http').status # 500)
        => LET found == ResultFrom(rows, Get(http').req.jobId)
           IN  (IsPresent(found) /\ ~Get(found).scan_success)
               => /\ ~IsPresent(Get(found).violations)
                  /\ Get(http').status = 200
                  /\ Get(http').body.html.violations = <<>>
                  /\ Get(http').body.html.accessibilityScore = 100
                  /\ Get(http').body.html.pageHealthStatus = "Good Shape"
                  /\ Get(http').body.html.totalViolations = 0
      ]_vars

\* The report of a failed scan was served: the row has an error message and
\* the report shows score 100.
FailedScanReportServed ==
    /\ QueryAnswered("export-report", 200)
    /\ LET found == ResultFrom(rows, Get(http).req.jobId)
       IN  /\ IsPresent(found)
           /\ ~Get(found).scan_success
           /\ IsPresent(Get(found).error_message)
    /\ Get(http).body.html.accessibilityScore = 100

\* C37: in neither process does a later invocation of shutdown call
\* pool.end() on a pool that is ending already, and none gets an error.
ShutdownAtMostOnce ==
    /\ \A i \in DOMAIN wk.calls : wk.calls[i] # "rejected"
    /\ \A i \in DOMAIN api.calls : ~api.calls[i].again
====
